---- MODULE Spec2Model ----
(***************************************************************************)
(* LogisticGrowthGraph_BubonicPlaguevsCovid19.py as a state machine.       *)
(*                                                                         *)
(* The script is one linear pipeline: integrate the SIR equations for the  *)
(* plague parameters, integrate them for the COVID-19 parameters, draw and *)
(* show a two-panel figure (blocking), compute the summary statistics and  *)
(* print them.                                                             *)
(*                                                                         *)
(* Arithmetic.  The script computes in binary floating point.  Here every  *)
(* head-count is a fixed-point integer counting 1/Scale of a person, and   *)
(* every multiplication or division rounds its result to the nearest unit, *)
(* as each floating-point operation rounds to the nearest representable    *)
(* number.  Rates (0.3, 0.1, 0.5, 0.014) are pairs <<numerator,            *)
(* denominator>>.  Sample times are kept exactly, as numerators over       *)
(* NSamples - 1.  All intermediate values stay below 2^31.                  *)
(*                                                                         *)
(* Integrator.  scipy's solve_ivp is a library: it advances the state with *)
(* an explicit Runge-Kutta scheme, calling sir_model for the derivative,   *)
(* and reports the state at the t_eval times.  It is modelled by the       *)
(* explicit Euler scheme with Substeps equal internal steps per report     *)
(* interval; like the library it uses sir_model only through its returned  *)
(* derivative vector and rounds each component it updates on its own.      *)
(***************************************************************************)
EXTENDS Integers, Sequences, FiniteSets, TLC

(* ------------------------------ bounds --------------------------------- *)

\* Fixed-point resolution: units per person.
Scale == 1000

\* Internal integrator steps per report interval.
Substeps == 8

\* Statistics checked on arbitrary series (SpecStats): series length and
\* largest sample value.
SeriesLen == 3

MaxVal == 1

(* ------------------------- program constants --------------------------- *)

\* Total population of Denver, in persons.
N == 729000

I0 == 1

S0 == N - I0

R0 == 0

beta_plague == <<3, 10>>

gamma_plague == <<1, 10>>

beta_covid_same == <<3, 10>>

beta_covid_low == <<2, 10>>

beta_covid == <<5, 10>>

gamma_covid == <<1, 10>>

t_span == <<0, 160>>

\* num=160 in np.linspace(t_span[0], t_span[1], 160)
NSamples == 160

(* ----------------------------- arithmetic ------------------------------ *)

\* A person count in fixed-point units.
Units(persons) == persons * Scale

\* Products are formed digit by digit so that no intermediate value leaves
\* 32 bits: operands below Base^3, divisors below 2^20.
Base == 2^10

Digit(v, k) == (v \div Base^k) % Base

\* a * b as the column sums of the schoolbook product, most significant
\* column first; carries are left in the columns.
Columns(a, b) ==
    << Digit(a, 2) * Digit(b, 2),
       Digit(a, 1) * Digit(b, 2) + Digit(a, 2) * Digit(b, 1),
       Digit(a, 0) * Digit(b, 2) + Digit(a, 1) * Digit(b, 1) + Digit(a, 2) * Digit(b, 0),
       Digit(a, 0) * Digit(b, 1) + Digit(a, 1) * Digit(b, 0),
       Digit(a, 0) * Digit(b, 0) >>

\* Short division of a five-column number by d: the quotient's columns and
\* the remainder.
ShortDiv(cols, d) ==
    LET t1 == cols[1]
        t2 == (t1 % d) * Base + cols[2]
        t3 == (t2 % d) * Base + cols[3]
        t4 == (t3 % d) * Base + cols[4]
        t5 == (t4 % d) * Base + cols[5]
    IN  [q |-> <<t1 \div d, t2 \div d, t3 \div d, t4 \div d, t5 \div d>>,
         r |-> t5 % d]

\* The integer a five-column number stands for.
Value(cols) ==
    (((cols[1] * Base + cols[2]) * Base + cols[3]) * Base + cols[4]) * Base + cols[5]

\* q + rem / c rounded to the nearest integer, for 0 <= rem < c.
Nearest(q, rem, c) == IF rem >= c - rem THEN q + 1 ELSE q

\* Given s1, the product divided by c1, and s2, its quotient divided by c2:
\* the product divided by c1 * c2, rounded to the nearest integer.
Quotient(s1, s2, c1, c2) == Nearest(Value(s2.q), s2.r * c1 + s1.r, c1 * c2)

TwoDivisions(s1, c1, c2) == Quotient(s1, ShortDiv(s1.q, c2), c1, c2)

\* a * b / (c1 * c2) rounded to the nearest integer, for a, b >= 0.
MulDivNearest(a, b, c1, c2) == TwoDivisions(ShortDiv(Columns(a, b), c1), c1, c2)

\* The same for any sign of a: rounding is symmetric about zero.
MulDiv(a, b, c1, c2) ==
    IF a >= 0 THEN MulDivNearest(a, b, c1, c2)
    ELSE 0 - MulDivNearest(0 - a, b, c1, c2)

\* rate * v for a rate <<numerator, denominator>>, rounded to the nearest unit.
Times(rate, v) == MulDiv(v, rate[1], rate[2], 1)

Abs(v) == IF v >= 0 THEN v ELSE 0 - v

(* ------------------------------ sir_model ------------------------------ *)

\* beta * S * I / N, with N in units: N * Scale.
Incidence(y, beta) == Times(beta, MulDiv(y[1], y[2], N, Scale))

dSdt_flipped(y, beta, gamma) == Incidence(y, beta)

dSdt(y, beta, gamma) == 0 - Incidence(y, beta)

dIdt_norecovery(y, beta, gamma) == Incidence(y, beta)

dIdt(y, beta, gamma) == Incidence(y, beta) - Times(gamma, y[2])

dRdt(y, beta, gamma) == Times(gamma, y[2])

\* def sir_model(t, y, beta, gamma): return [dSdt, dIdt, dRdt]   (t unused)
sir_model(y, beta, gamma) ==
    <<dSdt(y, beta, gamma), dIdt(y, beta, gamma), dRdt(y, beta, gamma)>>

(* ------------------------------ solve_ivp ------------------------------ *)

\* np.linspace(t_span[0], t_span[1], NSamples)[k] (k from 0), as the
\* numerator of a fraction over TimeDen.
TimeDen == NSamples - 1

t_eval(k) == t_span[1] * TimeDen + k * (t_span[2] - t_span[1])

\* h * v for one internal step, of length
\* h = (t_span[2] - t_span[1]) / (TimeDen * Substeps).
StepTimes(v) == MulDiv(v, t_span[2] - t_span[1], TimeDen, Substeps)

\* y + h * f, each component rounded on its own.
Increment(y, f) ==
    <<y[1] + StepTimes(f[1]), y[2] + StepTimes(f[2]), y[3] + StepTimes(f[3])>>

\* One internal step: y + h * sir_model(t, y, beta, gamma).
EulerStep(y, beta, gamma) == Increment(y, sir_model(y, beta, gamma))

\* The initial state vector [S0, I0, R0].
y0 == <<Units(S0), Units(I0), Units(R0)>>

\* A solution object: sol.t and sol.y (rows S, I, R), filled sample by sample.
EmptySol == [t |-> <<>>, y |-> <<<<>>, <<>>, <<>>>>]

Last(s) == s[Len(s)]

\* sol.y[i] with Python's row index (0 = S, 1 = I, 2 = R).
Row(sol, i) == sol.y[i + 1]

\* The number of samples in sol.
Size(sol) == Len(sol.t)

\* sol with the state y reported at the next t_eval time.
Report(sol, y) ==
    [t |-> Append(sol.t, t_eval(Size(sol))),
     y |-> <<Append(sol.y[1], y[1]), Append(sol.y[2], y[2]),
             Append(sol.y[3], y[3])>>]

\* The integrator at the start of a call: at y0, no internal step taken.
FreshSolver == [y |-> y0, step |-> 0]

\* The pair <<solution, integrator>> once an internal step has led to y:
\* every Substeps steps the state is reported.
Stepped(sol, step, y) ==
    IF step + 1 = Substeps
    THEN <<Report(sol, y), [y |-> y, step |-> 0]>>
    ELSE <<sol, [y |-> y, step |-> step + 1]>>

\* One move of the integrator: it reports y0 at t_span[1], then takes
\* internal steps.  The pair <<solution, integrator>> after the move.
Integrate(sol, slv, beta, gamma) ==
    IF Size(sol) = 0 THEN <<Report(sol, slv.y), slv>>
    ELSE Stepped(sol, slv.step, EulerStep(slv.y, beta, gamma))

(* ----------------------------- statistics ----------------------------- *)

\* seq[k] with Python's index (from 0).
At(seq, k) == seq[k + 1]

\* np.argmax(a): the index (from 0) of the maximum; where the maximum
\* occurs more than once, the index of its first occurrence.
Indices(a) == 0 .. Len(a) - 1

Maximum(a) == CHOOSE m \in {At(a, i) : i \in Indices(a)} :
                  \A i \in Indices(a) : At(a, i) <= m

Occurrences(a, v) == {i \in Indices(a) : At(a, i) = v}

argmax_last(a) ==
    CHOOSE i \in Occurrences(a, Maximum(a)) :
        \A j \in Occurrences(a, Maximum(a)) : j <= i

argmax(a) ==
    CHOOSE i \in Occurrences(a, Maximum(a)) :
        \A j \in Occurrences(a, Maximum(a)) : i <= j

\* Lines 70-72 and 75-77: the values at the final sample (index -1).
finals_plague_rows == <<0, 1, 1>>

finals_covid_rows == <<0, 1, 2>>

Finals(sol, rows) ==
    <<Last(Row(sol, rows[1])), Last(Row(sol, rows[2])), Last(Row(sol, rows[3]))>>

\* Lines 81 and 85: N - S_final.
total_infected_swapped(S_final) == S_final - Units(N)

total_infected(S_final) == Units(N) - S_final

\* The fatality ratios, one literal per use: lines 88, 91, 106, 107.
fatality_plague == <<1, 10>>

fatality_covid == <<14, 1000>>

fatality_peak_plague == <<1, 10>>

fatality_peak_covid_copied == <<1, 10>>

fatality_peak_covid == <<14, 1000>>

\* Lines 96-97 and 102-103: the series whose maximum is the peak.
infected_row == 1

peak_day(sol) == At(sol.t, argmax(Row(sol, infected_row)))

peak_infected(sol) == At(Row(sol, infected_row), argmax(Row(sol, infected_row)))

(* ------------------------------- output -------------------------------- *)

\* format(x, ".0f") of the fraction num/den >= 0: the nearest integer, a tie
\* going to the even one.
Fmt0(num, den) ==
    LET q == num \div den
        r == num % den
    IN  IF r > den - r \/ (r = den - r /\ q % 2 = 1) THEN q + 1 ELSE q

\* One line of standard output: its literal text and the numbers formatted
\* into it.
Text(s) == [text |-> s, value |-> <<>>]

Field(s, num, den) == [text |-> s, value |-> <<Fmt0(num, den)>>]

\* Lines 112-117: what each print statement of the plague block writes.
plague_block(st) ==
    << <<Text("Bubonic Plague Final Results:")>>,
       <<Field("Total Infected: ", st.total_infected_plague, Scale)>>,
       <<Field("Total Deaths (10% fatality): ", st.deaths_plague, Scale)>>,
       <<Field("Peak Infection Day: ", st.peak_day_plague, TimeDen)>>,
       <<Field("Peak Infected: ", st.peak_infected_plague, Scale)>>,
       <<Field("Deaths at Peak: ", st.deaths_peak_plague, Scale)>> >>

covid_block_mixed(st) ==
    << <<Text(""), Text("COVID-19 Final Results:")>>,
       <<Field("Total Infected: ", st.total_infected_covid, Scale)>>,
       <<Field("Total Deaths (1.4% fatality): ", st.deaths_covid, Scale)>>,
       <<Field("Peak Infection Day: ", st.peak_day_plague, TimeDen)>>,
       <<Field("Peak Infected: ", st.peak_infected_covid, Scale)>>,
       <<Field("Deaths at Peak: ", st.deaths_peak_covid, Scale)>>,
       <<Text("")>> >>

\* Lines 121-127: the COVID-19 block; "\n" opens its header with an empty
\* line, and print("") ends it with one.
covid_block(st) ==
    << <<Text(""), Text("COVID-19 Final Results:")>>,
       <<Field("Total Infected: ", st.total_infected_covid, Scale)>>,
       <<Field("Total Deaths (1.4% fatality): ", st.deaths_covid, Scale)>>,
       <<Field("Peak Infection Day: ", st.peak_day_covid, TimeDen)>>,
       <<Field("Peak Infected: ", st.peak_infected_covid, Scale)>>,
       <<Field("Deaths at Peak: ", st.deaths_peak_covid, Scale)>>,
       <<Text("")>> >>

\* The print statements of lines 112-127 in program order.
print_statements(st) == plague_block(st) \o covid_block(st)

NoStats == [name \in {} |-> 0]

(* ----------------------------- presentation ---------------------------- *)

Curve(panel, scenario, row, factor, style, label) ==
    [panel |-> panel, scenario |-> scenario, row |-> row, factor |-> factor,
     style |-> style, label |-> label]

\* Lines 40-65: the curves drawn, in order.
Figure ==
    << Curve(1, "plague", 0, <<1, 1>>, "b", "Susceptible"),
       Curve(1, "plague", 1, <<1, 1>>, "r", "Infected"),
       Curve(1, "plague", 2, <<1, 1>>, "g", "Recovered"),
       Curve(1, "plague", 1, <<1, 10>>, "k--", "Estimated Deaths (10%)"),
       Curve(2, "covid", 0, <<1, 1>>, "b", "Susceptible"),
       Curve(2, "covid", 1, <<1, 1>>, "r", "Infected"),
       Curve(2, "covid", 2, <<1, 1>>, "g", "Recovered"),
       Curve(2, "covid", 1, <<14, 1000>>, "k--", "Estimated Deaths (1.4%)") >>

(* -------------------------------- state -------------------------------- *)

VARIABLES
    pc,          \* the statement the script is at
    sol_plague,  \* solve_ivp's result for the plague parameters
    sol_covid,   \* solve_ivp's result for the COVID-19 parameters
    solver,      \* the integrator inside the running solve_ivp call
    figure,      \* the curves drawn so far
    viewer,      \* the plot window: "none", "open" or "closed"
    stats,       \* the statistics assigned so far, by variable name
    next_print,  \* the index of the next print statement
    stdout       \* the lines written to standard output

vars == <<pc, sol_plague, sol_covid, solver, figure, viewer, stats, next_print, stdout>>

Init ==
    /\ pc = "solve_plague"
    /\ sol_plague = EmptySol
    /\ sol_covid = EmptySol
    /\ solver = FreshSolver
    /\ figure = <<>>
    /\ viewer = "none"
    /\ stats = NoStats
    /\ next_print = 1
    /\ stdout = <<>>

\* Line 36, one move of the integrator at a time.
SolvePlague ==
    /\ pc = "solve_plague"
    /\ \E next \in {Integrate(sol_plague, solver, beta_plague, gamma_plague)} :
           /\ sol_plague' = next[1]
           /\ IF Size(next[1]) = NSamples
              THEN pc' = "solve_covid" /\ solver' = FreshSolver
              ELSE pc' = pc /\ solver' = next[2]
    /\ UNCHANGED <<sol_covid, figure, viewer, stats, next_print, stdout>>

\* Line 37, one move of the integrator at a time.
SolveCovid ==
    /\ pc = "solve_covid"
    /\ \E next \in {Integrate(sol_covid, solver, beta_covid, gamma_covid)} :
           /\ sol_covid' = next[1]
           /\ IF Size(next[1]) = NSamples
              THEN pc' = "plot" /\ solver' = FreshSolver
              ELSE pc' = pc /\ solver' = next[2]
    /\ UNCHANGED <<sol_plague, figure, viewer, stats, next_print, stdout>>

\* An integration raises: nothing catches it and the script ends.
Abort ==
    /\ pc \in {"solve_plague", "solve_covid"}
    /\ pc' = "aborted"
    /\ UNCHANGED <<sol_plague, sol_covid, solver, figure, viewer, stats, next_print, stdout>>

\* Lines 40-65.
Plot ==
    /\ pc = "plot"
    /\ figure' = Figure
    /\ pc' = "show"
    /\ UNCHANGED <<sol_plague, sol_covid, solver, viewer, stats, next_print, stdout>>

Show_nonblocking ==
    /\ pc = "show"
    /\ viewer' = "open"
    /\ pc' = "finals"
    /\ UNCHANGED <<sol_plague, sol_covid, solver, figure, stats, next_print, stdout>>

\* Line 66: plt.show() opens the window and blocks.
Show ==
    /\ pc = "show"
    /\ viewer' = "open"
    /\ pc' = "showing"
    /\ UNCHANGED <<sol_plague, sol_covid, solver, figure, stats, next_print, stdout>>

\* The user closes the window and plt.show() returns.
CloseViewer ==
    /\ pc = "showing"
    /\ viewer' = "closed"
    /\ pc' = "finals"
    /\ UNCHANGED <<sol_plague, sol_covid, solver, figure, stats, next_print, stdout>>

\* Lines 70-77.
ComputeFinals ==
    /\ pc = "finals"
    /\ LET p == Finals(sol_plague, finals_plague_rows)
           c == Finals(sol_covid, finals_covid_rows)
       IN  stats' = stats @@
               [S_final_plague |-> p[1], I_final_plague |-> p[2],
                R_final_plague |-> p[3],
                S_final_covid |-> c[1], I_final_covid |-> c[2],
                R_final_covid |-> c[3]]
    /\ pc' = "totals"
    /\ UNCHANGED <<sol_plague, sol_covid, solver, figure, viewer, next_print, stdout>>

\* Lines 81-91.
ComputeTotals ==
    /\ pc = "totals"
    /\ LET tp == total_infected(stats.S_final_plague)
           tc == total_infected(stats.S_final_covid)
       IN  stats' = stats @@
               [total_infected_plague |-> tp, total_infected_covid |-> tc,
                deaths_plague |-> Times(fatality_plague, tp),
                deaths_covid |-> Times(fatality_covid, tc)]
    /\ pc' = "peaks"
    /\ UNCHANGED <<sol_plague, sol_covid, solver, figure, viewer, next_print, stdout>>

\* Lines 96-107.
ComputePeaks ==
    /\ pc = "peaks"
    /\ LET ip == peak_infected(sol_plague)
           ic == peak_infected(sol_covid)
       IN  stats' = stats @@
               [peak_day_plague |-> peak_day(sol_plague),
                peak_day_covid |-> peak_day(sol_covid),
                peak_infected_plague |-> ip, peak_infected_covid |-> ic,
                deaths_peak_plague |-> Times(fatality_peak_plague, ip),
                deaths_peak_covid |-> Times(fatality_peak_covid, ic)]
    /\ pc' = "print"
    /\ UNCHANGED <<sol_plague, sol_covid, solver, figure, viewer, next_print, stdout>>

\* Lines 112-127, one print statement at a time.
PrintNext ==
    /\ pc = "print"
    /\ stdout' = stdout \o print_statements(stats)[next_print]
    /\ next_print' = next_print + 1
    /\ pc' = IF next_print = Len(print_statements(stats)) THEN "done" ELSE pc
    /\ UNCHANGED <<sol_plague, sol_covid, solver, figure, viewer, stats>>

Next ==
    \/ SolvePlague
    \/ SolveCovid
    \/ Abort
    \/ Plot
    \/ Show
    \/ CloseViewer
    \/ ComputeFinals
    \/ ComputeTotals
    \/ ComputePeaks
    \/ PrintNext

Spec == Init /\ [][Next]_vars

(***************************************************************************)
(* The statistics and the printing are functions of the two solutions      *)
(* alone.  SpecStats runs lines 70-127 on every pair of short series with  *)
(* small values, where a maximum may occur more than once: the state just  *)
(* after plt.show() has returned, for whatever the integrations reported.  *)
(***************************************************************************)

\* The solutions of SeriesLen samples whose infected counts are whole
\* persons up to MaxVal, nobody recovered.
SeriesSols ==
    { [t |-> [k \in 1 .. SeriesLen |-> t_eval(k - 1)],
       y |-> << [k \in 1 .. SeriesLen |-> Units(N) - Units(i[k])],
                [k \in 1 .. SeriesLen |-> Units(i[k])],
                [k \in 1 .. SeriesLen |-> 0] >>] :
      i \in [1 .. SeriesLen -> 0 .. MaxVal] }

InitStats ==
    /\ pc = "finals"
    /\ sol_plague \in SeriesSols
    /\ sol_covid \in SeriesSols
    /\ solver = FreshSolver
    /\ figure = Figure
    /\ viewer = "closed"
    /\ stats = NoStats
    /\ next_print = 1
    /\ stdout = <<>>

NextStats ==
    \/ ComputeFinals
    \/ ComputeTotals
    \/ ComputePeaks
    \/ PrintNext

SpecStats == InitStats /\ [][NextStats]_vars

(* ------------------------------- claims -------------------------------- *)

\* Whether the script has assigned the variable called name.
Has(name) == name \in DOMAIN stats

Complete(sol) == Size(sol) = NSamples

\* S + I + R - N at sample k (from 0) of sol, in units.
Drift(sol, k) ==
    At(Row(sol, 0), k) + At(Row(sol, 1), k) + At(Row(sol, 2), k) - Units(N)

FinalsAreFinalSamples ==
    Has("R_final_covid") =>
        /\ stats.S_final_plague = Last(Row(sol_plague, 0))
        /\ stats.I_final_plague = Last(Row(sol_plague, 1))
        /\ stats.R_final_plague = Last(Row(sol_plague, 2))
        /\ stats.S_final_covid = Last(Row(sol_covid, 0))
        /\ stats.I_final_covid = Last(Row(sol_covid, 1))
        /\ stats.R_final_covid = Last(Row(sol_covid, 2))

\* day and infected are the sample time and the I value at the smallest
\* index where the I series of sol attains its maximum.
IsFirstPeak(sol, day, infected) ==
    \E k \in Indices(sol.t) :
        /\ day = At(sol.t, k)
        /\ infected = At(Row(sol, 1), k)
        /\ \A j \in Indices(sol.t) : At(Row(sol, 1), j) <= infected
        /\ \A j \in Indices(sol.t) : j < k => At(Row(sol, 1), j) < infected

\* C4: for each scenario, peak day and peak infected are the sample time and
\* the I value at the smallest index at which the I series attains its
\* maximum: no sample exceeds it, and every earlier sample is strictly less.
PeakIsFirstMaximum ==
    Has("peak_infected_covid") =>
        /\ IsFirstPeak(sol_plague, stats.peak_day_plague, stats.peak_infected_plague)
        /\ IsFirstPeak(sol_covid, stats.peak_day_covid, stats.peak_infected_covid)

\* The peaks are computed, and in each series the maximum occurs more than
\* once and not at the first sample.
PeakWitness ==
    /\ Has("peak_infected_covid")
    /\ \A sol \in {sol_plague, sol_covid} :
           /\ Cardinality(Occurrences(Row(sol, 1), Maximum(Row(sol, 1)))) > 1
           /\ At(Row(sol, 1), 0) < Maximum(Row(sol, 1))

\* C5: for each scenario, total infected lies in the closed interval [0, N].
TotalInfectedInRange ==
    Has("total_infected_covid") =>
        /\ 0 <= stats.total_infected_plague
        /\ stats.total_infected_plague <= Units(N)
        /\ 0 <= stats.total_infected_covid
        /\ stats.total_infected_covid <= Units(N)

\* The totals are computed from final S values strictly between 0 and N.
TotalInfectedWitness ==
    /\ Has("total_infected_covid")
    /\ stats.total_infected_plague = Units(N) - Last(Row(sol_plague, 0))
    /\ stats.total_infected_covid = Units(N) - Last(Row(sol_covid, 0))
    /\ 0 < Last(Row(sol_plague, 0)) /\ Last(Row(sol_plague, 0)) < Units(N)
    /\ 0 < Last(Row(sol_covid, 0)) /\ Last(Row(sol_covid, 0)) < Units(N)

\* C6: total deaths are 0.10 times total infected for the plague and 0.014
\* times total infected for COVID-19, and deaths at peak are the peak
\* infected count times the same ratio, 0.10 and 0.014.
DeathEstimates ==
    /\ Has("deaths_covid") =>
           /\ stats.deaths_plague = Times(<<10, 100>>, stats.total_infected_plague)
           /\ stats.deaths_covid = Times(<<14, 1000>>, stats.total_infected_covid)
    /\ Has("deaths_peak_covid") =>
           /\ stats.deaths_peak_plague = Times(<<10, 100>>, stats.peak_infected_plague)
           /\ stats.deaths_peak_covid = Times(<<14, 1000>>, stats.peak_infected_covid)

\* All four estimates are computed, from positive counts.
DeathEstimatesWitness ==
    /\ Has("deaths_covid") /\ Has("deaths_peak_covid")
    /\ stats.deaths_plague > 0 /\ stats.deaths_covid > 0
    /\ stats.deaths_peak_plague > 0 /\ stats.deaths_peak_covid > 0
    /\ stats.deaths_peak_covid < stats.deaths_peak_plague

\* The five numeric lines of a block, from the scenario's own series and
\* fatality ratio.
BlockOf(sol, ratio, deaths_label) ==
    LET infected == Units(N) - Last(Row(sol, 0))
        peak     == Maximum(Row(sol, 1))
        first    == CHOOSE k \in Indices(sol.t) :
                        /\ At(Row(sol, 1), k) = peak
                        /\ \A j \in Indices(sol.t) : j < k => At(Row(sol, 1), j) < peak
    IN  << [text |-> "Total Infected: ", value |-> <<Fmt0(infected, Scale)>>],
           [text |-> deaths_label, value |-> <<Fmt0(Times(ratio, infected), Scale)>>],
           [text |-> "Peak Infection Day: ", value |-> <<Fmt0(At(sol.t, first), TimeDen)>>],
           [text |-> "Peak Infected: ", value |-> <<Fmt0(peak, Scale)>>],
           [text |-> "Deaths at Peak: ", value |-> <<Fmt0(Times(ratio, peak), Scale)>>] >>

BlankLine == [text |-> "", value |-> <<>>]

\* C7: a complete run writes exactly two blocks, the plague block first and
\* the COVID-19 block second; each is a header line, then the five numeric
\* lines Total Infected, Total Deaths, Peak Infection Day, Peak Infected,
\* Deaths at Peak, then one blank line; every value comes from the block's
\* own scenario.
OutputSequence ==
    pc = "done" =>
        stdout =
            << [text |-> "Bubonic Plague Final Results:", value |-> <<>>] >>
            \o BlockOf(sol_plague, <<10, 100>>, "Total Deaths (10% fatality): ")
            \o << BlankLine >>
            \o << [text |-> "COVID-19 Final Results:", value |-> <<>>] >>
            \o BlockOf(sol_covid, <<14, 1000>>, "Total Deaths (1.4% fatality): ")
            \o << BlankLine >>

\* The run is complete, and the two blocks differ in every number.
OutputWitness ==
    /\ pc = "done"
    /\ Len(stdout) = 14
    /\ \A k \in 2 .. 6 : stdout[k].value # stdout[k + 7].value

\* C8: with the constants of the script, the peak infected count of the
\* COVID-19 scenario exceeds that of the plague scenario.
PeakSizeOrdering ==
    Has("peak_infected_covid") =>
        stats.peak_infected_covid > stats.peak_infected_plague

\* The peaks are computed and each is the maximum of its own complete series.
PeakSizeWitness ==
    /\ Has("peak_infected_covid")
    /\ Complete(sol_plague) /\ Complete(sol_covid)
    /\ stats.peak_infected_plague = Maximum(Row(sol_plague, 1))
    /\ stats.peak_infected_covid = Maximum(Row(sol_covid, 1))

\* C9: with the constants of the script, the peak day of the COVID-19
\* scenario is no later than the peak day of the plague scenario, both on
\* the same grid of NSamples times over t_span.
PeakTimeOrdering ==
    Has("peak_day_covid") =>
        /\ sol_plague.t = sol_covid.t
        /\ Len(sol_covid.t) = NSamples
        /\ At(sol_covid.t, 0) = t_span[1] * TimeDen
        /\ Last(sol_covid.t) = t_span[2] * TimeDen
        /\ stats.peak_day_covid <= stats.peak_day_plague

\* The peak days are computed; both peaks lie inside the horizon, the
\* COVID-19 one strictly earlier.
PeakTimeWitness ==
    /\ Has("peak_day_covid")
    /\ 0 < stats.peak_day_covid
    /\ stats.peak_day_covid < stats.peak_day_plague
    /\ stats.peak_day_plague < Last(sol_plague.t)

\* C10: the stages run in the order plague integration, COVID-19
\* integration, plot display, statistics and printing; nothing is written to
\* standard output before the display has returned, so a run whose
\* integration fails or whose viewer is never closed has written nothing,
\* and once a line is written both integrations have completed.
StageOrdering ==
    /\ Size(sol_covid) > 0 => Complete(sol_plague)
    /\ figure # <<>> => Complete(sol_plague) /\ Complete(sol_covid)
    /\ viewer # "none" => figure = Figure
    /\ stats # NoStats => viewer = "closed"
    /\ stdout # <<>> =>
           /\ viewer = "closed"
           /\ Complete(sol_plague) /\ Complete(sol_covid)
           /\ Has("deaths_peak_covid")
    /\ (pc = "aborted" \/ viewer # "closed") => stdout = <<>>
    /\ pc = "aborted" => ~Complete(sol_covid) /\ figure = <<>> /\ viewer = "none"

\* The first statistics line has been written.
StageOrderingWitness ==
    /\ pc = "print"
    /\ Len(stdout) = 2
    /\ viewer = "closed"

====
